---- MODULE Spec2Model ----
(***************************************************************************)
(* Model of the sales dashboard script app.py: column detection, cleaning, *)
(* the sidebar filters, filtering, the empty check and the reports.        *)
(*                                                                         *)
(* A column name is a sequence of one-character strings, so that           *)
(* str.lower() and the substring test of detect_column are computed.       *)
(* A cell is a record tagged by t:                                         *)
(*   "nan"  missing value (NaN / NaT / empty cell)                         *)
(*   "str"  text that is neither a number nor a date                       *)
(*   "num"  a number n                                                     *)
(*   "nstr" text that spells the number n                                  *)
(*   "dstr" text that spells a date and hour, "y-m-d h:00"                 *)
(*   "ts"   a timestamp (y, m, d, h)                                       *)
(*   "per"  a month key "YYYY-MM" (y, m)                                   *)
(* Numbers are integers: sums and products are exact.                      *)
(***************************************************************************)
EXTENDS Integers, Sequences, FiniteSets, TLC

VARIABLES pc, raw_df, df, required, missing, date_range, selected_regions,
          selected_products, filtered_df, reports, again

vars == <<pc, raw_df, df, required, missing, date_range, selected_regions,
          selected_products, filtered_df, reports, again>>

-----------------------------------------------------------------------------
(* Bounds of the model *)

\* Rows of an uploaded table with one of the usual headers.
MaxRows == 3

\* Rows of an uploaded table with one of the variant headers.
MaxVariantRows == 1

-----------------------------------------------------------------------------
(* Strings *)

UpperCase == <<"A", "B", "C", "D", "E", "F", "G", "H", "I", "J", "K", "L", "M",
               "N", "O", "P", "Q", "R", "S", "T", "U", "V", "W", "X", "Y", "Z">>

LowerCase == <<"a", "b", "c", "d", "e", "f", "g", "h", "i", "j", "k", "l", "m",
               "n", "o", "p", "q", "r", "s", "t", "u", "v", "w", "x", "y", "z">>

\* str.lower() on one character.
LowerChar(ch) ==
    IF \E k \in 1..Len(UpperCase) : UpperCase[k] = ch
    THEN LowerCase[CHOOSE k \in 1..Len(UpperCase) : UpperCase[k] = ch]
    ELSE ch

\* str.lower()
Lower(s) == [i \in 1..Len(s) |-> LowerChar(s[i])]

\* Python's  sub in s  on strings.
Contains(sub, s) ==
    \E i \in 0..(Len(s) - Len(sub)) : SubSeq(s, i + 1, i + Len(sub)) = sub

-----------------------------------------------------------------------------
(* Canonical names and candidate lists *)

order_date == <<"o", "r", "d", "e", "r", "_", "d", "a", "t", "e">>
region     == <<"r", "e", "g", "i", "o", "n">>
product    == <<"p", "r", "o", "d", "u", "c", "t">>
quantity   == <<"q", "u", "a", "n", "t", "i", "t", "y">>
unit_price == <<"u", "n", "i", "t", "_", "p", "r", "i", "c", "e">>
revenue    == <<"r", "e", "v", "e", "n", "u", "e">>
year       == <<"y", "e", "a", "r">>
month      == <<"m", "o", "n", "t", "h">>

\* The keys of the dict  required, in insertion order.
RequiredFields == <<order_date, region, product, quantity, unit_price>>

\* The candidate lists passed to detect_column, by canonical field.
Candidates(f) ==
    CASE f = order_date -> << order_date, <<"d", "a", "t", "e">> >>
      [] f = region     -> << region >>
      [] f = product    -> << product, <<"i", "t", "e", "m">>, <<"s", "k", "u">> >>
      [] f = quantity   -> << quantity, <<"q", "t", "y">>,
                              <<"u", "n", "i", "t", "s">> >>
      [] f = unit_price -> << unit_price,
                              <<"u", "n", "i", "t", " ", "p", "r", "i", "c", "e">>,
                              <<"p", "r", "i", "c", "e">> >>

\* Python's None as the result of detect_column (no column name is this).
None == <<"None">>

-----------------------------------------------------------------------------
(* detect_column *)

\* The inner loop: the first column, from position i on, whose lowercased
\* name contains cand; None when there is none.
RECURSIVE ScanColumns(_, _, _)
ScanColumns(columns, cand, i) ==
    IF i > Len(columns) THEN None
    ELSE IF Contains(cand, Lower(columns[i])) THEN columns[i]
    ELSE ScanColumns(columns, cand, i + 1)

\* The loops in the other order: columns outside, candidates inside.
RECURSIVE ScanColumnsFirst(_, _, _)
ScanColumnsFirst(columns, candidates, i) ==
    IF i > Len(columns) THEN None
    ELSE IF \E k \in 1..Len(candidates) : Contains(candidates[k], Lower(columns[i]))
         THEN columns[i]
    ELSE ScanColumnsFirst(columns, candidates, i + 1)

\* The outer loop, from candidate k on.
RECURSIVE DetectFrom(_, _, _)
DetectFrom(columns, candidates, k) ==
    IF k > Len(candidates) THEN None
    ELSE LET c == ScanColumns(columns, candidates[k], 1)
         IN  IF c # None THEN c ELSE DetectFrom(columns, candidates, k + 1)

detect_column_colmajor(columns, candidates) ==
    ScanColumnsFirst(columns, candidates, 1)

detect_column(columns, candidates) == DetectFrom(columns, candidates, 1)

-----------------------------------------------------------------------------
(* Cells and conversions *)

NaN == [t |-> "nan"]
Str(s) == [t |-> "str", s |-> s]
Num(n) == [t |-> "num", n |-> n]
NumStr(n) == [t |-> "nstr", n |-> n]
DateStr(y, m, d, h) == [t |-> "dstr", y |-> y, m |-> m, d |-> d, h |-> h]
Timestamp(y, m, d, h) == [t |-> "ts", y |-> y, m |-> m, d |-> d, h |-> h]
Period(y, m) == [t |-> "per", y |-> y, m |-> m]

isna(c) == c.t = "nan"

DaysInMonth(y, m) ==
    IF m \in {4, 6, 9, 11} THEN 30
    ELSE IF m = 2
         THEN (IF (y % 4 = 0 /\ y % 100 # 0) \/ y % 400 = 0 THEN 29 ELSE 28)
    ELSE 31

\* pd.to_datetime(x, errors="coerce") on one cell: a timestamp stays, text
\* that spells a calendar date (and hour) parses, anything else is NaT.
to_datetime(c) ==
    CASE c.t = "ts"   -> c
      [] c.t = "dstr" -> IF /\ c.m \in 1..12
                            /\ c.d \in 1..DaysInMonth(c.y, c.m)
                            /\ c.h \in 0..23
                         THEN Timestamp(c.y, c.m, c.d, c.h)
                         ELSE NaN
      [] c.t = "str"  -> NaN
      [] c.t = "nan"  -> NaN

\* pd.to_numeric(x, errors="coerce") on one cell.
to_numeric(c) ==
    CASE c.t = "num"  -> c
      [] c.t = "nstr" -> Num(c.n)
      [] c.t = "str"  -> NaN
      [] c.t = "dstr" -> NaN
      [] c.t = "nan"  -> NaN

\* Timestamp comparison  a <= b.
TsLE(a, b) ==
    \/ a.y < b.y
    \/ a.y = b.y /\ a.m < b.m
    \/ a.y = b.y /\ a.m = b.m /\ a.d < b.d
    \/ a.y = b.y /\ a.m = b.m /\ a.d = b.d /\ a.h <= b.h

-----------------------------------------------------------------------------
(* Tables: a sequence of column names and a sequence of rows, each row a   *)
(* sequence of cells aligned with the columns.                             *)

Range(s) == {s[i] : i \in 1..Len(s)}

HasColumn(t, name) == \E i \in 1..Len(t.columns) : t.columns[i] = name

\* Position of the column called name.
ColumnIndex(t, name) == CHOOSE i \in 1..Len(t.columns) : t.columns[i] = name

\* row[name]
Cell(t, row, name) == row[ColumnIndex(t, name)]

\* df[name] = values: overwrite the column in place when it exists, append
\* it as the last column when it does not.
SetColumn(t, name, values) ==
    IF HasColumn(t, name)
    THEN [columns |-> t.columns,
          rows |-> [r \in 1..Len(t.rows) |->
                      [t.rows[r] EXCEPT ![ColumnIndex(t, name)] = values[r]]]]
    ELSE [columns |-> Append(t.columns, name),
          rows |-> [r \in 1..Len(t.rows) |-> Append(t.rows[r], values[r])]]

\* df[name]: the values of a column, by row.
Column(t, name) == [r \in 1..Len(t.rows) |-> Cell(t, t.rows[r], name)]

-----------------------------------------------------------------------------
(* clean_sales_data *)

\* The dict  required: canonical field -> detected column or None.
DetectRequired(columns) ==
    [f \in Range(RequiredFields) |-> detect_column(columns, Candidates(f))]

\* Only the first unresolved field is reported.
FirstMissingField(req) ==
    LET all == SelectSeq(RequiredFields, LAMBDA f : req[f] = None)
    IN  IF all = <<>> THEN <<>> ELSE <<all[1]>>

\* missing = [k for k, v in required.items() if v is None]
MissingFields(req) == SelectSeq(RequiredFields, LAMBDA f : req[f] = None)

\* The dict literal passed to df.rename: a detected column that is the key
\* of two entries keeps the later entry.
RenameColumn(req, c) ==
    IF c = req[unit_price] THEN unit_price
    ELSE IF c = req[quantity] THEN quantity
    ELSE IF c = req[product] THEN product
    ELSE IF c = req[region] THEN region
    ELSE IF c = req[order_date] THEN order_date
    ELSE c

\* df.rename(columns={...})
Rename(t, req) ==
    [columns |-> [i \in 1..Len(t.columns) |-> RenameColumn(req, t.columns[i])],
     rows |-> t.rows]

\* The three coercions of lines 136-138.
Coerce(t) ==
    LET n  == Len(t.rows)
        t1 == SetColumn(t, order_date,
                  [r \in 1..n |-> to_datetime(Column(t, order_date)[r])])
        t2 == SetColumn(t1, quantity,
                  [r \in 1..n |-> to_numeric(Column(t1, quantity)[r])])
    IN  SetColumn(t2, unit_price,
                  [r \in 1..n |-> to_numeric(Column(t2, unit_price)[r])])

\* df.dropna(subset=[the five canonical fields])
DropNa(t) ==
    [columns |-> t.columns,
     rows |-> SelectSeq(t.rows, LAMBDA row :
                  \A f \in Range(RequiredFields) : ~isna(Cell(t, row, f)))]

\* The mask with | in place of &.
EitherPositive(t) ==
    [columns |-> t.columns,
     rows |-> SelectSeq(t.rows, LAMBDA row :
                  Cell(t, row, quantity).n > 0 \/ Cell(t, row, unit_price).n > 0)]

\* df[(df["quantity"] > 0) & (df["unit_price"] > 0)]
PositiveOnly(t) ==
    [columns |-> t.columns,
     rows |-> SelectSeq(t.rows, LAMBDA row :
                  Cell(t, row, quantity).n > 0 /\ Cell(t, row, unit_price).n > 0)]

\* Keep the first of the rows that agree on the five canonical fields.
DropDuplicatesOnRequired(t) ==
    LET key(row) == [f \in Range(RequiredFields) |-> Cell(t, row, f)]
        F[i \in 0..Len(t.rows)] ==
            IF i = 0 THEN <<>>
            ELSE IF \E j \in 1..(i - 1) : key(t.rows[j]) = key(t.rows[i])
                 THEN F[i - 1]
                 ELSE Append(F[i - 1], t.rows[i])
    IN  [columns |-> t.columns, rows |-> F[Len(t.rows)]]

\* df.drop_duplicates(): keep the first of the rows equal in every column.
DropDuplicates(t) ==
    LET F[i \in 0..Len(t.rows)] ==
            IF i = 0 THEN <<>>
            ELSE IF \E j \in 1..(i - 1) : t.rows[j] = t.rows[i]
                 THEN F[i - 1]
                 ELSE Append(F[i - 1], t.rows[i])
    IN  [columns |-> t.columns, rows |-> F[Len(t.rows)]]

\* Lines 144-146: revenue, year and month, in this order.
Derive(t) ==
    LET n == Len(t.rows)
        t1 == SetColumn(t, revenue,
                  [r \in 1..n |-> Num(Cell(t, t.rows[r], quantity).n
                                      * Cell(t, t.rows[r], unit_price).n)])
        t2 == SetColumn(t1, year,
                  [r \in 1..n |-> Num(Cell(t1, t1.rows[r], order_date).y)])
    IN  SetColumn(t2, month,
                  [r \in 1..n |-> Period(Cell(t2, t2.rows[r], order_date).y,
                                         Cell(t2, t2.rows[r], order_date).m)])

\* Lines 126-138: the renamed and coerced table.
Normalized(t, req) == Coerce(Rename(t, req))

NoTable == [columns |-> <<>>, rows |-> <<>>]

\* The outcome of clean_sales_data(t):
\*   "ok"         it returns df
\*   "ValueError" line 121, with the list  missing
\*   "KeyError"   a canonical column is absent after the rename (two fields
\*                detected the same column)
clean_sales_data(t) ==
    LET req  == DetectRequired(t.columns)
        miss == MissingFields(req)
        ren  == Rename(t, req)
    IN  IF miss # <<>>
        THEN [status |-> "ValueError", required |-> req, missing |-> miss,
              df |-> NoTable]
        ELSE IF \E f \in Range(RequiredFields) : ~HasColumn(ren, f)
        THEN [status |-> "KeyError", required |-> req, missing |-> miss,
              df |-> NoTable]
        ELSE [status |-> "ok", required |-> req, missing |-> miss,
              df |-> Derive(DropDuplicates(PositiveOnly(DropNa(Coerce(ren)))))]

-----------------------------------------------------------------------------
(* filter_data *)

\* A datetime.date, as st.date_input returns it.
Date(y, m, d) == [t |-> "date", y |-> y, m |-> m, d |-> d]

\* Python's None as a filter argument, and a list of selected values.
NoneValue == [t |-> "none"]
List(v) == [t |-> "list", v |-> v]

\* Truth value of a filter argument: None and the empty list are false.
Truthy(x) == IF x.t = "list" THEN x.v # {} ELSE x.t # "none"

\* pd.to_datetime(start) on a datetime.date: midnight of that day.
DateToTimestamp(d) == Timestamp(d.y, d.m, d.d, 0)

\* The mask of filter_data for one row.
FilterMask(t, row, dr, regions, products) ==
    /\ (dr.t # "none" /\ Len(dr.v) = 2) =>
          /\ Truthy(dr.v[1]) =>
                TsLE(DateToTimestamp(dr.v[1]), Cell(t, row, order_date))
          /\ Truthy(dr.v[2]) =>
                TsLE(Cell(t, row, order_date), DateToTimestamp(dr.v[2]))
    /\ Truthy(regions) => Cell(t, row, region) \in regions.v
    /\ Truthy(products) => Cell(t, row, product) \in products.v

\* df[mask]: the rows the mask keeps, in their order.
filter_data(t, dr, regions, products) ==
    [columns |-> t.columns,
     rows |-> SelectSeq(t.rows, LAMBDA row :
                  FilterMask(t, row, dr, regions, products))]

-----------------------------------------------------------------------------
(* generate_reports *)

\* The value pivot_table puts in a region x month cell with no row.
fill_value == 0

RECURSIVE SumFrom(_, _, _)
\* Sum of column name over the rows of t from position i on.
SumFrom(t, name, i) ==
    IF i > Len(t.rows) THEN 0
    ELSE Cell(t, t.rows[i], name).n + SumFrom(t, name, i + 1)

\* df[name].sum()
ColumnSum(t, name) == SumFrom(t, name, 1)

\* The distinct values of a column.
Keys(t, name) == {Cell(t, t.rows[r], name) : r \in 1..Len(t.rows)}

\* The rows of one group of df.groupby(by).
Group(t, by, k) ==
    [columns |-> t.columns,
     rows |-> SelectSeq(t.rows, LAMBDA row : Cell(t, row, by) = k)]

\* A grouping that keeps, for each key, the revenue of its last row only.
GroupLast(t, by) ==
    {[key |-> k,
      revenue |-> Cell(t, Group(t, by, k).rows[Len(Group(t, by, k).rows)], revenue).n,
      quantity |-> ColumnSum(Group(t, by, k), quantity)]
     : k \in Keys(t, by)}

\* df.groupby(by, as_index=False).agg(revenue=sum, quantity=sum): one group
\* per distinct key.
GroupBy(t, by) ==
    {[key |-> k,
      revenue |-> ColumnSum(Group(t, by, k), revenue),
      quantity |-> ColumnSum(Group(t, by, k), quantity)]
     : k \in Keys(t, by)}

\* The orders in which the members of a set can be listed.
Orders(S) ==
    {s \in [1..Cardinality(S) -> S] : \A x \in S : \E i \in DOMAIN s : s[i] = x}

\* Month keys compare as their "YYYY-MM" text does.
PeriodLT(a, b) == a.y < b.y \/ (a.y = b.y /\ a.m < b.m)

\* .sort_values("month"): the keys are distinct, so there is one order.
SortByMonth(groups) ==
    CHOOSE s \in Orders(groups) :
        \A i \in DOMAIN s : \A j \in DOMAIN s : i < j => PeriodLT(s[i].key, s[j].key)

\* The results of sorting ascending by revenue.
SortAscending(groups) ==
    {s \in Orders(groups) :
        \A i \in DOMAIN s : \A j \in DOMAIN s : i < j => s[i].revenue <= s[j].revenue}

\* .sort_values("revenue", ascending=False) with the default sort kind,
\* which is not a stable sort: every order that is descending by revenue is
\* a result, groups of equal revenue in any order.
SortDescending(groups) ==
    {s \in Orders(groups) :
        \A i \in DOMAIN s : \A j \in DOMAIN s : i < j => s[i].revenue >= s[j].revenue}

\* The rows of one group of the pivot's groupby([region, month]).
PivotGroup(t, r, m) ==
    [columns |-> t.columns,
     rows |-> SelectSeq(t.rows, LAMBDA row :
                  Cell(t, row, region) = r /\ Cell(t, row, month) = m)]

\* A pivot cell without fill_value: an unobserved cell is left missing (-1
\* stands for the missing marker).
PivotCellNoFill(t, r, m) ==
    IF PivotGroup(t, r, m).rows # <<>>
    THEN ColumnSum(PivotGroup(t, r, m), revenue)
    ELSE -1

\* One cell of pd.pivot_table(index="region", columns="month",
\* values="revenue", aggfunc="sum", fill_value=0).
PivotCell(t, r, m) ==
    IF PivotGroup(t, r, m).rows # <<>>
    THEN ColumnSum(PivotGroup(t, r, m), revenue)
    ELSE fill_value

Pivot(t) ==
    [index   |-> Keys(t, region),
     columns |-> Keys(t, month),
     cell    |-> [rm \in Keys(t, region) \X Keys(t, month) |->
                     PivotCell(t, rm[1], rm[2])]]

\* The four values of overall_kpis; the average is the integer quotient.
OverallKpis(t) ==
    LET total_revenue == ColumnSum(t, revenue)
        num_orders    == Len(t.rows)
    IN  [total_revenue   |-> total_revenue,
         total_quantity  |-> ColumnSum(t, quantity),
         num_orders      |-> num_orders,
         avg_order_value |-> IF num_orders > 0
                             THEN total_revenue \div num_orders ELSE 0]

\* The dicts generate_reports(t) can return.
generate_reports(t) ==
    {[overall_kpis        |-> OverallKpis(t),
      monthly_performance |-> SortByMonth(GroupBy(t, month)),
      revenue_by_region   |-> br,
      revenue_by_product  |-> bp,
      region_month_pivot  |-> Pivot(t)]
     : br \in SortDescending(GroupBy(t, region)),
       bp \in SortDescending(GroupBy(t, product))}

-----------------------------------------------------------------------------
(* Uploaded files *)

\* Headers with the five concepts under usual names and one extra column.
SalesHeaders ==
    { << <<"O", "r", "d", "e", "r", " ", "D", "a", "t", "e">>,
         <<"R", "e", "g", "i", "o", "n">>,
         <<"P", "r", "o", "d", "u", "c", "t">>,
         <<"Q", "t", "y">>,
         <<"U", "n", "i", "t", " ", "P", "r", "i", "c", "e">>,
         <<"o", "r", "d", "e", "r", "_", "i", "d">> >>,
      << <<"d", "a", "t", "e">>,
         <<"r", "e", "g", "i", "o", "n">>,
         <<"p", "r", "o", "d", "u", "c", "t">>,
         <<"q", "u", "a", "n", "t", "i", "t", "y">>,
         <<"u", "n", "i", "t", "_", "p", "r", "i", "c", "e">>,
         <<"r", "e", "v", "e", "n", "u", "e">> >> }

\* Headers that exercise the detection: a later candidate matching an
\* earlier column, upper case, unresolved concepts, and one column detected
\* for two concepts.
VariantHeaders ==
    { << <<"D", "a", "t", "e">>,
         <<"R", "e", "g", "i", "o", "n">>,
         <<"P", "r", "o", "d", "u", "c", "t">>,
         <<"Q", "t", "y">>,
         <<"P", "r", "i", "c", "e">>,
         <<"U", "n", "i", "t", "_", "P", "r", "i", "c", "e">> >>,
      << <<"O", "R", "D", "E", "R", "_", "D", "A", "T", "E">>,
         <<"R", "E", "G", "I", "O", "N">>,
         <<"S", "K", "U">>,
         <<"U", "n", "i", "t", "s">>,
         <<"P", "R", "I", "C", "E">>,
         <<"n", "o", "t", "e", "s">> >>,
      << <<"D", "a", "t", "e">>,
         <<"A", "r", "e", "a">>,
         <<"P", "r", "o", "d", "u", "c", "t">>,
         <<"C", "o", "u", "n", "t">>,
         <<"P", "r", "i", "c", "e">>,
         <<"i", "d">> >>,
      << <<"W", "h", "e", "n">>,
         <<"A", "r", "e", "a">>,
         <<"N", "a", "m", "e">>,
         <<"C", "o", "u", "n", "t">>,
         <<"C", "o", "s", "t">>,
         <<"i", "d">> >>,
      << <<"D", "a", "t", "e">>,
         <<"R", "e", "g", "i", "o", "n">>,
         <<"P", "r", "o", "d", "u", "c", "t", "_", "P", "r", "i", "c", "e">>,
         <<"Q", "t", "y">>,
         <<"C", "o", "s", "t">>,
         <<"i", "d">> >> }

\* Rows of a file: date, region, product, quantity, unit price, extra.
SampleRows ==
    { <<DateStr(2024, 1, 5, 0), Str("East"), Str("Widget"), Num(3), Num(10), Num(1)>>,
      <<DateStr(2024, 1, 5, 0), Str("East"), Str("Widget"), Num(3), Num(10), Num(2)>>,
      <<DateStr(2024, 2, 1, 14), Str("West"), Str("Gadget"), NumStr(6), Num(5), Num(1)>>,
      <<DateStr(2024, 1, 20, 0), Str("West"), Str("Widget"), Num(-1), Num(10), Num(1)>>,
      <<DateStr(2024, 2, 30, 0), NaN, Str("Gadget"), Num(2), Str("n/a"), Num(2)>>,
      <<DateStr(2024, 1, 20, 0), Str("East"), Str("Gadget"), Num(2), Num(5), Num(2)>> }

\* The sequences over S of length at most n.
SeqsUpTo(S, n) == UNION {[1..k -> S] : k \in 0..n}

\* The tables pd.read_csv / pd.read_excel can hand over. Column names are
\* distinct, and no header holds two columns that the rename of line 126
\* would call the same.
RawTables ==
    {[columns |-> h, rows |-> rs] : h \in SalesHeaders, rs \in SeqsUpTo(SampleRows, MaxRows)}
    \cup
    {[columns |-> h, rows |-> rs] : h \in VariantHeaders, rs \in SeqsUpTo(SampleRows, MaxVariantRows)}

-----------------------------------------------------------------------------
(* The script *)

NoReports == [overall_kpis |-> NoneValue]
NoResult == [status |-> "none"]
NoRequired == [f \in Range(RequiredFields) |-> None]

Init ==
    /\ pc = "start"
    /\ raw_df = NoTable
    /\ df = NoTable
    /\ required = NoRequired
    /\ missing = <<>>
    /\ date_range = NoneValue
    /\ selected_regions = {}
    /\ selected_products = {}
    /\ filtered_df = NoTable
    /\ reports = NoReports
    /\ again = NoResult

\* Lines 262-275: a file is uploaded and read.
ReadFile ==
    /\ pc = "start"
    /\ \E t \in RawTables : raw_df' = t
    /\ pc' = "read"
    /\ UNCHANGED <<df, required, missing, date_range, selected_regions,
                   selected_products, filtered_df, reports, again>>

\* Lines 273-275: the reader raises, the script stops.
ReadError ==
    /\ pc = "start"
    /\ pc' = "read_error"
    /\ UNCHANGED <<raw_df, df, required, missing, date_range, selected_regions,
                   selected_products, filtered_df, reports, again>>

\* Lines 284-292: clean, or show the error and stop.
Clean ==
    /\ pc = "read"
    /\ LET r == clean_sales_data(raw_df)
       IN  /\ required' = r.required
           /\ missing' = r.missing
           /\ df' = r.df
           /\ pc' = CASE r.status = "ok" -> "cleaned"
                      [] r.status = "ValueError" -> "schema_error"
                      [] r.status = "KeyError" -> "clean_error"
    /\ UNCHANGED <<raw_df, date_range, selected_regions, selected_products,
                   filtered_df, reports, again>>

\* The calendar date of a timestamp.
DateOf(ts) == Date(ts.y, ts.m, ts.d)

DateLE(a, b) == TsLE(DateToTimestamp(a), DateToTimestamp(b))

\* Lines 295-315 on a table with rows: the user picks a range (or, midway,
\* only its start) between the table's first and last day, any of the
\* regions and any of the products.
SidebarChoices(t) ==
    LET days == {DateOf(Cell(t, row, order_date)) : row \in Range(t.rows)}
    IN  [dr : {[t |-> "tuple", v |-> se] :
                   se \in {x \in days \X days : DateLE(x[1], x[2])}}
              \cup {[t |-> "tuple", v |-> <<s>>] : s \in days},
         regions : SUBSET Keys(t, region),
         products : SUBSET Keys(t, product)]

\* Lines 295-315. With no row the bounds given to st.date_input are NaT;
\* the widget either raises, which ends the run, or returns no range.
Sidebar ==
    /\ pc = "cleaned"
    /\ IF df.rows # <<>>
       THEN \E c \in SidebarChoices(df) :
               /\ date_range' = c.dr
               /\ selected_regions' = c.regions
               /\ selected_products' = c.products
               /\ pc' = "sidebar"
       ELSE /\ date_range' = [t |-> "tuple", v |-> <<>>]
            /\ selected_regions' = {}
            /\ selected_products' = {}
            /\ pc' \in {"sidebar", "widget_error"}
    /\ UNCHANGED <<raw_df, df, required, missing, filtered_df, reports, again>>

\* Lines 317-322.
Filter ==
    /\ pc = "sidebar"
    /\ filtered_df' = filter_data(df, date_range, List(selected_regions),
                                  IF selected_products # {}
                                  THEN List(selected_products) ELSE NoneValue)
    /\ pc' = "filtered"
    /\ UNCHANGED <<raw_df, df, required, missing, date_range, selected_regions,
                   selected_products, reports, again>>

\* An emptiness test that never reports empty.
NeverEmpty(t) == FALSE

\* filtered_df.empty
empty(t) == t.rows = <<>>

\* Lines 324-326: nothing left, warn and stop.
StopEmpty ==
    /\ pc = "filtered"
    /\ empty(filtered_df)
    /\ pc' = "empty"
    /\ UNCHANGED <<raw_df, df, required, missing, date_range, selected_regions,
                   selected_products, filtered_df, reports, again>>

\* Line 328.
Report ==
    /\ pc = "filtered"
    /\ ~empty(filtered_df)
    /\ reports' \in generate_reports(filtered_df)
    /\ pc' = "reported"
    /\ UNCHANGED <<raw_df, df, required, missing, date_range, selected_regions,
                   selected_products, filtered_df, again>>

Next == ReadFile \/ ReadError \/ Clean \/ Sidebar \/ Filter \/ StopEmpty \/ Report

Spec == Init /\ [][Next]_vars

\* clean_sales_data applied to its own result.
CleanAgain ==
    /\ pc = "cleaned"
    /\ again' = clean_sales_data(df)
    /\ pc' = "recleaned"
    /\ UNCHANGED <<raw_df, df, required, missing, date_range, selected_regions,
                   selected_products, filtered_df, reports>>

NextClean == ReadFile \/ ReadError \/ Clean \/ CleanAgain

SpecClean == Init /\ [][NextClean]_vars

-----------------------------------------------------------------------------
(* Properties *)

\* The script has run clean_sales_data on raw_df.
CleanHasRun == pc \notin {"start", "read", "read_error"}

\* clean_sales_data has returned a table.
CleanReturned == CleanHasRun /\ pc \notin {"schema_error", "clean_error"}

\* C1: every row of the table clean_sales_data returns has the five
\* canonical fields present, quantity > 0 and unit_price > 0, and revenue,
\* year and month populated with revenue = quantity * unit_price; a raw row
\* with quantity -1 is not in it.
C1_CleanedRowsValid ==
    CleanReturned =>
        \A row \in Range(df.rows) :
            /\ \A f \in Range(RequiredFields) : ~isna(Cell(df, row, f))
            /\ Cell(df, row, order_date).t = "ts"
            /\ Cell(df, row, quantity).t = "num"
            /\ Cell(df, row, unit_price).t = "num"
            /\ Cell(df, row, quantity).n > 0
            /\ Cell(df, row, unit_price).n > 0
            /\ Cell(df, row, quantity) # Num(-1)
            /\ HasColumn(df, revenue) /\ HasColumn(df, year) /\ HasColumn(df, month)
            /\ Cell(df, row, revenue)
                  = Num(Cell(df, row, quantity).n * Cell(df, row, unit_price).n)
            /\ Cell(df, row, year) = Num(Cell(df, row, order_date).y)
            /\ Cell(df, row, month)
                  = Period(Cell(df, row, order_date).y, Cell(df, row, order_date).m)

\* C1 witness: a raw table with a row of quantity -1 and a row that
\* survives has been cleaned.
C1_Witness ==
    /\ pc = "cleaned"
    /\ df.rows # <<>>
    /\ \E raw \in Range(raw_df.rows) :
          Cell(raw_df, raw, required[quantity]) = Num(-1)

\* No candidate of field f occurs in any lowercased column name of raw_df.
Unresolved(f) ==
    \A i \in 1..Len(raw_df.columns) : \A k \in 1..Len(Candidates(f)) :
        ~Contains(Candidates(f)[k], Lower(raw_df.columns[i]))

UnresolvedFields == {f \in Range(RequiredFields) : Unresolved(f)}

\* C2: when some canonical field is matched by none of its candidates,
\* clean_sales_data fails with the schema error and the list it carries is
\* exactly the set of unresolved fields, each once.
C2_SchemaErrorNamesMissing ==
    (CleanHasRun /\ UnresolvedFields # {}) =>
        /\ pc = "schema_error"
        /\ Range(missing) = UnresolvedFields
        /\ Len(missing) = Cardinality(UnresolvedFields)

\* C2 witness: the schema error with some fields resolved and two not.
C2_Witness ==
    /\ pc = "schema_error"
    /\ Cardinality(UnresolvedFields) = 2
    /\ Len(missing) = 2

\* The positions of the columns of raw_df whose lowercased name contains
\* the k-th candidate of field f.
Hits(f, k) ==
    {i \in 1..Len(raw_df.columns) :
        Contains(Candidates(f)[k], Lower(raw_df.columns[i]))}

MatchingCandidates(f) == {k \in 1..Len(Candidates(f)) : Hits(f, k) # {}}

Least(S) == CHOOSE x \in S : \A y \in S : x <= y

\* C9: detect_column returns the first column, in column order, that
\* contains the highest-priority candidate matching any column, also when
\* a later candidate matches an earlier column, and returns None exactly
\* when no column contains any candidate.
C9_DetectColumnPriority ==
    CleanHasRun =>
        \A f \in Range(RequiredFields) :
            IF MatchingCandidates(f) = {}
            THEN required[f] = None
            ELSE /\ required[f] # None
                 /\ required[f]
                      = raw_df.columns[Least(Hits(f, Least(MatchingCandidates(f))))]

\* C9 witness: a field whose detected column comes after a column that a
\* lower-priority candidate matches.
C9_Witness ==
    /\ CleanHasRun
    /\ \E f \in Range(RequiredFields) :
          /\ MatchingCandidates(f) # {}
          /\ \E k \in MatchingCandidates(f) :
                /\ k > Least(MatchingCandidates(f))
                /\ Least(Hits(f, k)) < Least(Hits(f, Least(MatchingCandidates(f))))


\* The projection of a cleaned row on the canonical fields and the derived
\* ones.
CanonicalPart(t, row) ==
    [f \in Range(RequiredFields) \cup {revenue, year, month} |-> Cell(t, row, f)]

\* C3 as stated: no two records of the cleaned table agree on all
\* canonical fields (order_date, region, product, quantity, unit_price,
\* revenue, year, month), whatever extra columns the raw table carries.
C3_NoCanonicalDuplicates ==
    CleanReturned =>
        \A i \in 1..Len(df.rows) : \A j \in 1..Len(df.rows) :
            i < j => CanonicalPart(df, df.rows[i]) # CanonicalPart(df, df.rows[j])

\* The raw rows after the rename and the coercions that pass the missing
\* value and the positivity tests.
ValidNormalizedRows ==
    LET norm == Normalized(raw_df, required)
    IN  {row \in Range(norm.rows) :
            /\ \A f \in Range(RequiredFields) : ~isna(Cell(norm, row, f))
            /\ Cell(norm, row, quantity).n > 0
            /\ Cell(norm, row, unit_price).n > 0}

\* The columns of a cleaned table that come from the raw table unchanged
\* by the derivation.
CarriedColumns(t) ==
    {i \in 1..Len(t.columns) : t.columns[i] \notin {revenue, year, month}}

\* C3 amended: extra columns are kept and count in the comparison. Of the
\* valid raw rows that agree, after coercion, on every column of the table
\* exactly one survives, and two valid raw rows that differ in any column,
\* canonical or extra, both survive.
C3_OneSurvivorPerDistinctRow ==
    CleanReturned =>
        /\ Len(df.rows) = Cardinality(ValidNormalizedRows)
        /\ \A v \in ValidNormalizedRows :
              \E row \in Range(df.rows) :
                  \A i \in 1..Len(raw_df.columns) :
                      i \in CarriedColumns(df) => row[i] = v[i]

\* C3 witness: two surviving rows agree on the five canonical fields and
\* differ in the extra column.
C3_Witness ==
    /\ pc = "cleaned"
    /\ \E i \in 1..Len(df.rows) : \E j \in 1..Len(df.rows) :
          /\ i < j
          /\ \A f \in Range(RequiredFields) :
                Cell(df, df.rows[i], f) = Cell(df, df.rows[j], f)
          /\ df.rows[i] # df.rows[j]

\* C8: clean_sales_data applied to its own result succeeds and returns the
\* identical table.
C8_CleanIdempotent ==
    pc = "recleaned" => (again.status = "ok" /\ again.df = df)

\* C4: filter_data returns exactly the rows, in order, whose order_date
\* lies in [start, end] inclusive of both days (no restriction without a
\* two-sided range), whose region is selected or no region is selected, and
\* whose product is selected or no product is selected; a row whose
\* order_date falls on the end date passes.
C4_FilterReturnsMatchingRows ==
    pc = "filtered" =>
        /\ filtered_df.columns = df.columns
        /\ filtered_df.rows =
              SelectSeq(df.rows, LAMBDA row :
                  /\ Len(date_range.v) = 2 =>
                        /\ DateLE(date_range.v[1], DateOf(Cell(df, row, order_date)))
                        /\ DateLE(DateOf(Cell(df, row, order_date)), date_range.v[2])
                  /\ selected_regions = {} \/ Cell(df, row, region) \in selected_regions
                  /\ selected_products = {}
                        \/ Cell(df, row, product) \in selected_products)

RECURSIVE SumRevenue(_)
\* The sum of the revenue column of a report.
SumRevenue(s) == IF s = <<>> THEN 0 ELSE Head(s).revenue + SumRevenue(Tail(s))

\* The sum of the values of a function with a finite domain.
SumOver(f) ==
    LET F[T \in SUBSET DOMAIN f] ==
            IF T = {} THEN 0
            ELSE LET x == CHOOSE y \in T : TRUE IN f[x] + F[T \ {x}]
    IN  F[DOMAIN f]

\* C5: the revenue of revenue_by_region, of revenue_by_product and the
\* Total Revenue of overall_kpis all equal the sum of revenue over the rows
\* the reports were made from.
C5_TotalsConserved ==
    pc = "reported" =>
        /\ SumRevenue(reports.revenue_by_region) = reports.overall_kpis.total_revenue
        /\ SumRevenue(reports.revenue_by_product) = reports.overall_kpis.total_revenue
        /\ reports.overall_kpis.total_revenue
              = SumOver([r \in 1..Len(filtered_df.rows) |->
                            Cell(filtered_df, filtered_df.rows[r], revenue).n])

\* C5 witness: reports over two regions and two products, one group
\* holding more than one row.
C5_Witness ==
    /\ pc = "reported"
    /\ Len(reports.revenue_by_region) >= 2
    /\ Len(reports.revenue_by_product) >= 2
    /\ Len(filtered_df.rows) > Len(reports.revenue_by_region)

\* C6: the pivot has one row per region and one column per month of the
\* reported rows, 0 in every region x month cell with no row, row sums
\* equal to revenue_by_region and column sums equal to monthly_performance.
C6_PivotDenseAndConsistent ==
    pc = "reported" =>
        LET pv == reports.region_month_pivot
        IN  /\ pv.index = Keys(filtered_df, region)
            /\ pv.columns = Keys(filtered_df, month)
            /\ DOMAIN pv.cell = pv.index \X pv.columns
            /\ \A rm \in DOMAIN pv.cell :
                  (\A row \in Range(filtered_df.rows) :
                       ~(Cell(filtered_df, row, region) = rm[1]
                         /\ Cell(filtered_df, row, month) = rm[2]))
                  => pv.cell[rm] = 0
            /\ \A r \in pv.index :
                  \E g \in Range(reports.revenue_by_region) :
                      /\ g.key = r
                      /\ g.revenue = SumOver([m \in pv.columns |-> pv.cell[<<r, m>>]])
            /\ \A m \in pv.columns :
                  \E g \in Range(reports.monthly_performance) :
                      /\ g.key = m
                      /\ g.revenue = SumOver([r \in pv.index |-> pv.cell[<<r, m>>]])

\* C6 witness: a pivot of two regions and two months with a cell no row
\* falls in.
C6_Witness ==
    /\ pc = "reported"
    /\ Cardinality(reports.region_month_pivot.index) >= 2
    /\ Cardinality(reports.region_month_pivot.columns) >= 2
    /\ \E rm \in DOMAIN reports.region_month_pivot.cell :
          \A row \in Range(filtered_df.rows) :
              ~(Cell(filtered_df, row, region) = rm[1]
                /\ Cell(filtered_df, row, month) = rm[2])

FirstRow(t, by, k) == Least({r \in 1..Len(t.rows) : Cell(t, t.rows[r], by) = k})

\* s is descending by revenue with groups of equal revenue in the order in
\* which their keys first occur in t.
DescendingByEncounter(s, t, by) ==
    \A i \in DOMAIN s : \A j \in DOMAIN s :
        i < j => \/ s[i].revenue > s[j].revenue
                 \/ /\ s[i].revenue = s[j].revenue
                    /\ FirstRow(t, by, s[i].key) < FirstRow(t, by, s[j].key)

\* C10 as stated: revenue_by_region and revenue_by_product are descending
\* by revenue, groups of equal revenue in first-encounter order.
C10_TiesInEncounterOrder ==
    pc = "reported" =>
        /\ DescendingByEncounter(reports.revenue_by_region, filtered_df, region)
        /\ DescendingByEncounter(reports.revenue_by_product, filtered_df, product)

\* s lists every group of t by column by once, with the sum of its
\* revenue, in an order descending by revenue.
DescendingGroups(s, t, by) ==
    /\ Len(s) = Cardinality(Keys(t, by))
    /\ {s[i].key : i \in DOMAIN s} = Keys(t, by)
    /\ \A i \in DOMAIN s :
          s[i].revenue
             = SumOver([r \in {q \in 1..Len(t.rows) :
                                    Cell(t, t.rows[q], by) = s[i].key} |->
                           Cell(t, t.rows[r], revenue).n])
    /\ \A i \in DOMAIN s : \A j \in DOMAIN s : i < j => s[i].revenue >= s[j].revenue

\* C10 amended: revenue_by_region and revenue_by_product list each group
\* once with its summed revenue, descending by revenue; the order of groups
\* of equal revenue is not fixed by the order of first encounter.
C10_SortedDescending ==
    pc = "reported" =>
        /\ DescendingGroups(reports.revenue_by_region, filtered_df, region)
        /\ DescendingGroups(reports.revenue_by_product, filtered_df, product)

\* C10 witness: two regions of equal revenue are listed with the one met
\* later in the rows first.
C10_Witness ==
    /\ pc = "reported"
    /\ \E i, j \in DOMAIN reports.revenue_by_region :
          /\ i < j
          /\ reports.revenue_by_region[i].revenue = reports.revenue_by_region[j].revenue
          /\ FirstRow(filtered_df, region, reports.revenue_by_region[i].key)
                > FirstRow(filtered_df, region, reports.revenue_by_region[j].key)

====
